---- MODULE Spec2Model ----
(***************************************************************************)
(* ExpenseAI dashboard (pages/Index.tsx), its transaction store            *)
(* (services/database.ts) and the rule engine it calls (services/ai.ts).   *)
(*                                                                         *)
(* Dates are month indices: every rule of the engine and of the dashboard  *)
(* looks at a date only through getFullYear()/getMonth() or through the    *)
(* store's ordering.  Expense descriptions are kept only on bank records,  *)
(* where category inference reads them; no handler of the dashboard reads  *)
(* the description of a stored expense.                                    *)
(*                                                                         *)
(* services/ai.ts is not among the available sources.  Its functions       *)
(* (classifyExpense, recomputeAlerts, computeCategoryCap,                  *)
(* reconcileSavingsLedger) are written from their documented contracts.    *)
(***************************************************************************)
EXTENDS Integers, Sequences, FiniteSets, TLC

\* ------------------------------------------------------------------ bounds
MaxMonth == 2          \* months are 0..MaxMonth
MaxIds == 1            \* ids the store can still hand out after Init
MaxPending == 1        \* store calls in flight at the same time
InitialDocs == 4       \* documents of the largest InitialStores collection
MaxAnalyses == 3       \* advisory requests that are ever answered
MaxLines == 2          \* lines a CSV text has after its header
MaxDeletes == 2        \* delete calls in flight at the same time
MaxList == 4           \* length of the transaction lists the cap is probed on
IdLimit == InitialDocs + MaxIds

\* --------------------------------------------------------------- constants
ImpulseThreshold == 500
HabitThreshold == 4
LargeOverspend == 500
NoCap == -1            \* computeCategoryCap returning null
NoUser == "null"       \* useAuth().user === null
NoAlert ==             \* no alert has been dismissed
  [category |-> "none", title |-> "none", period |-> 0, severity |-> "none",
   savingPotential |-> 0]
NoAnalysis == [seq |-> 0, list |-> <<>>]   \* useState<AnalysisResult | null>(null)

Categories ==
  {"food", "transport", "shopping", "entertainment", "bills",
   "subscriptions", "groceries", "health", "other"}
NonEssential == {"food", "shopping", "entertainment"}

Users == {"A@x.io"}
UserKeys == {"a@x.io", "b@x.io", "guest"}
Months == 0..MaxMonth

\* inputs the handlers are exercised with
AddInputs ==
  {[amount |-> 100, category |-> "food"], [amount |-> 600, category |-> "food"],
   [amount |-> 100, category |-> "bills"]}
CapValues == {NoCap, 0, 350, 500}

\* ----------------------------------------------------------------- helpers
Max(a, b) == IF a >= b THEN a ELSE b
Min(a, b) == IF a <= b THEN a ELSE b

RECURSIVE SumAmount(_)
SumAmount(s) == IF s = <<>> THEN 0 ELSE Head(s).amount + SumAmount(Tail(s))

RECURSIVE Reverse(_)
Reverse(s) == IF s = <<>> THEN <<>> ELSE Append(Reverse(Tail(s)), Head(s))

SeqToSet(s) == {s[i] : i \in 1..Len(s)}

\* String.prototype.toLowerCase on the e-mail addresses of Users
ToLowerCase(email) == IF email = "A@x.io" THEN "a@x.io" ELSE email

\* const userKey = user?.email ? user.email.toLowerCase() : 'guest'
UserKey_guest(u) == "guest"
UserKey(u) == IF u = NoUser THEN "guest" ELSE ToLowerCase(u)

\* expenses of one category dated in the month of asOf, in list order
InMonth(exps, category, asOf) ==
  SelectSeq(exps, LAMBDA e : e.date = asOf /\ e.category = category)

\* the month-to-date spend the add handler computes for the new category
MonthTotal(exps, category, asOf) == SumAmount(InMonth(exps, category, asOf))

\* ------------------------------------------------- services/ai.ts contracts
\* impulse: non-essential category and amount over the threshold;
\* habit: 4th or later occurrence of the category in the current month,
\* counting the candidate
classifyExpense_inclusive(e, history, asOf) ==
  [impulse |-> e.category \in NonEssential /\ e.amount >= ImpulseThreshold,
   habit   |-> Len(InMonth(history, e.category, asOf)) + 1 >= HabitThreshold]
classifyExpense_history(e, history, asOf) ==
  [impulse |-> e.category \in NonEssential /\ e.amount > ImpulseThreshold,
   habit   |-> Len(InMonth(history, e.category, asOf)) >= HabitThreshold]
classifyExpense(e, history, asOf) ==
  [impulse |-> e.category \in NonEssential /\ e.amount > ImpulseThreshold,
   habit   |-> Len(InMonth(history, e.category, asOf)) + 1 >= HabitThreshold]

\* stable insertion of e into a list sorted by date ascending
RECURSIVE InsertByDate(_, _)
InsertByDate(e, s) ==
  IF s = <<>> THEN <<e>>
  ELSE IF e.date < Head(s).date THEN <<e>> \o s
  ELSE <<Head(s)>> \o InsertByDate(e, Tail(s))

RECURSIVE SortByDate(_)
SortByDate(s) ==
  IF s = <<>> THEN <<>>
  ELSE InsertByDate(s[Len(s)], SortByDate(SubSeq(s, 1, Len(s) - 1)))

\* the list is kept newest first, so chronological order reverses it
Chronological(exps) == SortByDate(Reverse(exps))

\* amount attributable to the occurrences beyond the 3rd, chronologically
BeyondBaseline(exps, category, asOf) ==
  LET occ == Chronological(InMonth(exps, category, asOf))
  IN  IF Len(occ) < HabitThreshold THEN 0
      ELSE SumAmount(SubSeq(occ, HabitThreshold, Len(occ)))

\* a category's spend has at least halved against the previous month
MateriallyLower(exps, category, asOf) ==
  /\ asOf > 0
  /\ MonthTotal(exps, category, asOf - 1) > 0
  /\ 2 * MonthTotal(exps, category, asOf) <= MonthTotal(exps, category, asOf - 1)

\* pure rebuild of the alert list; an alert's id is (category, title, period)
recomputeAlerts(exps, asOf) ==
  {[category |-> c, title |-> "habit", period |-> asOf,
    severity |-> IF BeyondBaseline(exps, c, asOf) >= LargeOverspend
                 THEN "bad" ELSE "warning",
    savingPotential |-> BeyondBaseline(exps, c, asOf)]
      : c \in {k \in Categories :
                 Len(InMonth(exps, k, asOf)) >= HabitThreshold}}
  \cup
  {[category |-> c, title |-> "improved", period |-> asOf,
    severity |-> "good", savingPotential |-> 0]
      : c \in {k \in Categories : MateriallyLower(exps, k, asOf)}}

\* null without a bad alert for the category, otherwise the month's spend
\* in the category less the alert's savingPotential, floored at zero
computeCategoryCap_anyCategory(exps, badAlerts, category, asOf) ==
  LET mine == {a \in badAlerts : a.severity = "bad"}
  IN  IF mine = {} THEN NoCap
      ELSE LET a == CHOOSE x \in mine : \A y \in mine :
                      x.savingPotential >= y.savingPotential
           IN  Max(0, MonthTotal(exps, category, asOf) - a.savingPotential)
computeCategoryCap(exps, badAlerts, category, asOf) ==
  LET mine == {a \in badAlerts : a.category = category /\ a.severity = "bad"}
  IN  IF mine = {} THEN NoCap
      ELSE LET a == CHOOSE x \in mine : \A y \in mine :
                      x.savingPotential >= y.savingPotential
           IN  Max(0, MonthTotal(exps, category, asOf) - a.savingPotential)

\* the ledger of one user: month -> {prevented, reduced, optimized}
ZeroEntry == [prevented |-> 0, reduced |-> 0, optimized |-> 0]
EmptyLedger == [m \in Months |-> ZeroEntry]

\* requested amount less committed amount, when the request was recorded
Residual(e) ==
  IF "requested" \in DOMAIN e THEN Max(0, e.requested - e.amount) ELSE 0

RECURSIVE SumResidual(_)
SumResidual(s) ==
  IF s = <<>> THEN 0 ELSE Residual(Head(s)) + SumResidual(Tail(s))

RECURSIVE SumField(_, _, _)
SumField(l, f, m) ==
  IF m < 0 THEN 0 ELSE l[m][f] + SumField(l, f, m - 1)

SummaryOf(l) ==
  LET p == SumField(l, "prevented", MaxMonth)
      r == SumField(l, "reduced", MaxMonth)
      o == SumField(l, "optimized", MaxMonth)
  IN  [total |-> p + r + o, prevented |-> p, reduced |-> r, optimized |-> o]

\* the month's REDUCED entry is recomputed from the transactions, never
\* added to; the updated ledger is what is persisted under the user's key
reconcileSavingsLedger(l, exps, asOf) ==
  LET upd == [l EXCEPT ![asOf].reduced =
                SumResidual(SelectSeq(exps, LAMBDA e : e.date = asOf))]
  IN  [summary |-> SummaryOf(upd), ledger |-> upd]

\* ------------------------------------------------------------------- state
VARIABLES
  store,            \* Firestore collection 'expenses' as the signed-in user sees it
  nextId,           \* next document id Firestore hands out
  ledger,           \* localStorage: user key -> persisted savings ledger
  user,             \* useAuth().user (its e-mail), or NoUser
  now,              \* the current month (new Date())
  expenses,         \* useState<Expense[]>: newest first
  alerts,           \* useState<HabitAlert[]>
  savedSummary,     \* useState<SavingsSummary>
  applySavings,     \* the optimization toggle
  isGlobalLoading,  \* the loading overlay flag
  loadState,        \* the mount-time getExpenses(): "loading" or "done"
  pending,          \* store calls awaited by a handler, with its closure
  effectPending,    \* the effects on [expenses, userKey] / [expenses] are due
  lastOp,           \* what the last handler step did
  dismissed,        \* the alert handleDismissAlert removed last, or NoAlert
  advisoryOnline,   \* whether the advisory service answers at all
  analysisRequests, \* requestGeminiAnalysis calls awaiting their answer
  analysisSeq,      \* number of the next requestGeminiAnalysis call
  lastAnalysis      \* useState<AnalysisResult | null>: the request it answers

vars == <<store, nextId, ledger, user, now, expenses, alerts, savedSummary,
          applySavings, isGlobalLoading, loadState, pending, effectPending,
          lastOp, dismissed, advisoryOnline, analysisRequests, analysisSeq,
          lastAnalysis>>

\* useState<SavingsSummary>({ total: 0, prevented: 0, reduced: 0, optimized: 0 })
InitialSummary_skewed == [total |-> 1, prevented |-> 0, reduced |-> 0, optimized |-> 0]
InitialSummary == [total |-> 0, prevented |-> 0, reduced |-> 0, optimized |-> 0]

Doc(id, amount, category, date, source) ==
  [id |-> id, amount |-> amount, category |-> category, date |-> date,
   isImpulse |-> (category \in NonEssential /\ amount > ImpulseThreshold),
   source |-> source]

\* what the user's collection holds when the dashboard mounts
InitialStores ==
  { { Doc(1, 100, "food", 1, "AUTO"), Doc(2, 100, "food", 1, "AUTO"),
      Doc(3, 100, "food", 1, "MANUAL") },
    { Doc(1, 100, "food", 1, "MANUAL"), Doc(2, 100, "food", 1, "AUTO"),
      Doc(3, 100, "food", 1, "AUTO"), Doc(4, 600, "food", 1, "MANUAL") } }

\* what localStorage holds when the dashboard mounts
InitialLedgers ==
  { [k \in UserKeys |->
       IF k = "a@x.io" THEN [EmptyLedger EXCEPT ![0].prevented = 50,
                                                ![1].reduced = 40]
       ELSE IF k = "b@x.io" THEN [EmptyLedger EXCEPT ![0].optimized = 30]
       ELSE [EmptyLedger EXCEPT ![1].optimized = 20]] }

NoError == [kind |-> "none", row |-> 0]

NoOp == [op |-> "mount", req |-> 0, amt |-> 0, cap |-> NoCap, mt |-> 0,
         apply |-> FALSE, uk |-> "guest", calls |-> <<>>, err |-> NoError,
         file |-> <<>>, cat |-> "none"]

\* the dashboard as it mounts, whatever the store and localStorage hold
Mounted ==
  /\ ledger \in InitialLedgers
  /\ user = "A@x.io"
  /\ now = 1
  /\ expenses = <<>>
  /\ alerts = {}
  /\ savedSummary = InitialSummary
  /\ applySavings = FALSE
  /\ isGlobalLoading = FALSE
  /\ loadState = "loading"
  /\ pending = {}
  /\ effectPending = TRUE
  /\ lastOp = NoOp
  /\ dismissed = NoAlert
  /\ analysisRequests = {}
  /\ analysisSeq = 1
  /\ lastAnalysis = NoAnalysis

\* the advisory service is not reachable: its requests are never answered
Init ==
  /\ Mounted
  /\ advisoryOnline = FALSE
  /\ store \in InitialStores
  /\ nextId = InitialDocs + 1

\* ---------------------------------------------------------- store (database.ts)
\* orderBy('date', 'desc'); documents of one month come newest id first
RECURSIVE ListDesc(_)
ListDesc(docs) ==
  IF docs = {} THEN <<>>
  ELSE LET d == CHOOSE x \in docs : \A y \in docs :
                  x.date > y.date \/ (x.date = y.date /\ x.id >= y.id)
       IN  <<d>> \o ListDesc(docs \ {d})

\* getExpenses(): the documents of the current user, newest first
getExpenses == ListDesc(store)

WithId(e, id) ==
  [id |-> id, amount |-> e.amount, category |-> e.category, date |-> e.date,
   isImpulse |-> e.isImpulse, source |-> e.source]

\* ids handed to a batch, in the order of the batch
RECURSIVE WithIds(_, _)
WithIds(items, id) ==
  IF items = <<>> THEN <<>>
  ELSE <<WithId(Head(items), id)>> \o WithIds(Tail(items), id + 1)

\* ------------------------------------------------------------ the dashboard
\* const badAlerts = alerts.filter((a) => a.severity === 'bad')
badAlerts == {a \in alerts : a.severity = "bad"}

\* the tail every mutation handler runs on its post-mutation list:
\* recomputeAlerts, then reconcileSavingsLedger under the closure's user key
AfterMutation_stale(next, uk, asOf) ==
  [alerts |-> recomputeAlerts(expenses, now),
   recon  |-> reconcileSavingsLedger(ledger[uk], next, asOf),
   calls  |-> <<"recomputeAlerts", "reconcileSavingsLedger">>]
AfterMutation_patch(next, uk, asOf) ==
  [alerts |-> alerts \cup recomputeAlerts(next, now),
   recon  |-> reconcileSavingsLedger(ledger[uk], next, asOf),
   calls  |-> <<"recomputeAlerts", "reconcileSavingsLedger">>]
AfterMutation(next, uk, asOf) ==
  [alerts |-> recomputeAlerts(next, now),
   recon  |-> reconcileSavingsLedger(ledger[uk], next, asOf),
   calls  |-> <<"recomputeAlerts", "reconcileSavingsLedger">>]

\* requestGeminiAnalysis(list), not awaited by the core: the request is in
\* flight under the next number; a request that is never answered leaves
\* nothing behind
RequestAnalysis(list) ==
  IF advisoryOnline /\ analysisSeq <= MaxAnalyses
  THEN /\ analysisRequests' =
            analysisRequests \cup {[seq |-> analysisSeq, list |-> list]}
       /\ analysisSeq' = analysisSeq + 1
  ELSE UNCHANGED <<analysisRequests, analysisSeq>>

\* the overlay covers the page and the Add / Upload buttons are disabled
UiFree == ~isGlobalLoading /\ ~effectPending

\* useEffect(..., []) : loadExpenses resolved; getExpenses throws without a
\* current user
LoadResolve_hidesDismissed ==
  /\ loadState = "loading" /\ ~effectPending
  /\ user # NoUser
  /\ loadState' = "done"
  /\ expenses' = getExpenses
  /\ alerts' = recomputeAlerts(getExpenses, now) \ {dismissed}
  /\ effectPending' = TRUE
  /\ lastOp' = [NoOp EXCEPT !.op = "load_done", !.calls = <<"recomputeAlerts">>]
  /\ UNCHANGED <<store, nextId, ledger, user, now, savedSummary, applySavings,
                 isGlobalLoading, pending,
                 dismissed, advisoryOnline, analysisRequests, analysisSeq, lastAnalysis>>
LoadResolve ==
  /\ loadState = "loading" /\ ~effectPending
  /\ user # NoUser
  /\ loadState' = "done"
  /\ expenses' = getExpenses
  /\ alerts' = recomputeAlerts(getExpenses, now)
  /\ effectPending' = TRUE
  /\ lastOp' = [NoOp EXCEPT !.op = "load_done", !.calls = <<"recomputeAlerts">>]
  /\ UNCHANGED <<store, nextId, ledger, user, now, savedSummary, applySavings,
                 isGlobalLoading, pending,
                 dismissed, advisoryOnline, analysisRequests, analysisSeq, lastAnalysis>>

\* loadExpenses: getExpenses threw
LoadReject ==
  /\ loadState = "loading" /\ ~effectPending
  /\ loadState' = "done"
  /\ expenses' = <<>>
  /\ alerts' = {}
  /\ effectPending' = TRUE
  /\ lastOp' = [NoOp EXCEPT !.op = "load_failed"]
  /\ UNCHANGED <<store, nextId, ledger, user, now, savedSummary, applySavings,
                 isGlobalLoading, pending,
                 dismissed, advisoryOnline, analysisRequests, analysisSeq, lastAnalysis>>

\* the summary the effect on [expenses, userKey] stores
EffectSummary_accumulate(uk) ==
  LET s == reconcileSavingsLedger(ledger[uk], expenses, now).summary
  IN  [total |-> savedSummary.total + s.total,
       prevented |-> savedSummary.prevented + s.prevented,
       reduced |-> savedSummary.reduced + s.reduced,
       optimized |-> savedSummary.optimized + s.optimized]
EffectSummary(uk) == reconcileSavingsLedger(ledger[uk], expenses, now).summary

\* useEffect(() => { reconcileSavingsLedger({ userKey, expenses }) ... },
\*           [expenses, userKey])
\* useEffect(() => { ... await requestGeminiAnalysis(expenses) ... }, [expenses])
\* runs with it unless only the user key has changed
ReconcileEffect ==
  /\ effectPending
  /\ effectPending' = FALSE
  /\ IF lastOp.op = "switch_user"
     THEN UNCHANGED <<analysisRequests, analysisSeq>>
     ELSE RequestAnalysis(expenses)
  /\ savedSummary' = EffectSummary(UserKey(user))
  /\ ledger' = [ledger EXCEPT ![UserKey(user)] =
                  reconcileSavingsLedger(@, expenses, now).ledger]
  /\ UNCHANGED <<store, nextId, user, now, expenses, alerts, applySavings,
                 isGlobalLoading, loadState, pending, lastOp,
                 dismissed, advisoryOnline, lastAnalysis>>

\* setApplySavings((v) => !v)
ToggleApplySavings ==
  /\ UiFree
  /\ applySavings' = ~applySavings
  /\ UNCHANGED <<store, nextId, ledger, user, now, expenses, alerts,
                 savedSummary, isGlobalLoading, loadState, pending,
                 effectPending, lastOp,
                 dismissed, advisoryOnline, analysisRequests, analysisSeq, lastAnalysis>>

\* handleAddExpense, lines 164-186: whether the add is blocked and the amount
\* it goes on with
CapDecision_strict(apply, cap, monthTotal, amount) ==
  IF apply /\ cap # NoCap
  THEN LET remaining == Max(0, cap - monthTotal)
       IN  IF remaining < 0
           THEN [blocked |-> TRUE, finalAmount |-> amount]
           ELSE IF amount > remaining
                THEN [blocked |-> FALSE, finalAmount |-> remaining]
                ELSE [blocked |-> FALSE, finalAmount |-> amount]
  ELSE [blocked |-> FALSE, finalAmount |-> amount]
CapDecision_always(apply, cap, monthTotal, amount) ==
  IF cap # NoCap
  THEN LET remaining == Max(0, cap - monthTotal)
       IN  IF remaining <= 0
           THEN [blocked |-> TRUE, finalAmount |-> amount]
           ELSE IF amount > remaining
                THEN [blocked |-> FALSE, finalAmount |-> remaining]
                ELSE [blocked |-> FALSE, finalAmount |-> amount]
  ELSE [blocked |-> FALSE, finalAmount |-> amount]
CapDecision_nomin(apply, cap, monthTotal, amount) ==
  IF apply /\ cap # NoCap
  THEN LET remaining == Max(0, cap - monthTotal)
       IN  IF remaining <= 0
           THEN [blocked |-> TRUE, finalAmount |-> amount]
           ELSE [blocked |-> FALSE, finalAmount |-> remaining]
  ELSE [blocked |-> FALSE, finalAmount |-> amount]
CapDecision(apply, cap, monthTotal, amount) ==
  IF apply /\ cap # NoCap
  THEN LET remaining == Max(0, cap - monthTotal)
       IN  IF remaining <= 0
           THEN [blocked |-> TRUE, finalAmount |-> amount]
           ELSE IF amount > remaining
                THEN [blocked |-> FALSE, finalAmount |-> remaining]
                ELSE [blocked |-> FALSE, finalAmount |-> amount]
  ELSE [blocked |-> FALSE, finalAmount |-> amount]

\* line 166: the cap computeCategoryCap returns for the new expense's category
CapFor_recomputed(category) ==
  computeCategoryCap(expenses,
    {a \in recomputeAlerts(expenses, now) : a.severity = "bad"}, category, now)
CapFor(category) == computeCategoryCap(expenses, badAlerts, category, now)

\* handleAddExpense up to its await addExpense(expenseToAdd); cap is what
\* computeCategoryCap returns (it is consulted only inside if (applySavings))
HandleAddExpenseWith_requested(amount, category, cap) ==
  LET mt  == MonthTotal(expenses, category, now)
      dec == CapDecision(applySavings, cap, mt, amount)
      base == [amount |-> dec.finalAmount, category |-> category, date |-> now,
               isImpulse |-> FALSE, source |-> "MANUAL"]
      toAdd == [base EXCEPT !.isImpulse =
                  classifyExpense([base EXCEPT !.amount = amount],
                                  expenses, now).impulse]
      op == [op |-> "add", req |-> amount, amt |-> dec.finalAmount,
             cap |-> cap, mt |-> mt, apply |-> applySavings,
             uk |-> UserKey(user), calls |-> <<>>, err |-> NoError,
             file |-> <<>>, cat |-> category]
  IN
  /\ UiFree
  /\ IF dec.blocked
     THEN /\ isGlobalLoading' = FALSE
          /\ lastOp' = [op EXCEPT !.op = "add_blocked"]
          /\ UNCHANGED <<pending, nextId>>
     ELSE /\ Cardinality(pending) < MaxPending
          /\ nextId <= IdLimit
          /\ nextId' = nextId + 1
          /\ isGlobalLoading' = TRUE
          /\ lastOp' = [op EXCEPT !.op = "add_issued"]
          /\ pending' = pending \cup
               {[kind |-> "add", snap |-> expenses, uk |-> UserKey(user),
                 asOf |-> now, items |-> <<WithId(toAdd, nextId)>>,
                 authed |-> user # NoUser, op |-> op]}
  /\ UNCHANGED <<store, ledger, user, now, expenses, alerts,
                 savedSummary, applySavings, loadState, effectPending,
                 dismissed, advisoryOnline, analysisRequests, analysisSeq, lastAnalysis>>
HandleAddExpenseWith(amount, category, cap) ==
  LET mt  == MonthTotal(expenses, category, now)
      dec == CapDecision(applySavings, cap, mt, amount)
      base == [amount |-> dec.finalAmount, category |-> category, date |-> now,
               isImpulse |-> FALSE, source |-> "MANUAL"]
      toAdd == [base EXCEPT !.isImpulse =
                  classifyExpense(base, expenses, now).impulse]
      op == [op |-> "add", req |-> amount, amt |-> dec.finalAmount,
             cap |-> cap, mt |-> mt, apply |-> applySavings,
             uk |-> UserKey(user), calls |-> <<>>, err |-> NoError,
             file |-> <<>>, cat |-> category]
  IN
  /\ UiFree
  /\ IF dec.blocked
     THEN /\ isGlobalLoading' = FALSE
          /\ lastOp' = [op EXCEPT !.op = "add_blocked"]
          /\ UNCHANGED <<pending, nextId>>
     ELSE /\ Cardinality(pending) < MaxPending
          /\ nextId <= IdLimit
          /\ nextId' = nextId + 1
          /\ isGlobalLoading' = TRUE
          /\ lastOp' = [op EXCEPT !.op = "add_issued"]
          /\ pending' = pending \cup
               {[kind |-> "add", snap |-> expenses, uk |-> UserKey(user),
                 asOf |-> now, items |-> <<WithId(toAdd, nextId)>>,
                 authed |-> user # NoUser, op |-> op]}
  /\ UNCHANGED <<store, ledger, user, now, expenses, alerts,
                 savedSummary, applySavings, loadState, effectPending,
                 dismissed, advisoryOnline, analysisRequests, analysisSeq, lastAnalysis>>

HandleAddExpense ==
  \E in \in AddInputs :
    HandleAddExpenseWith(in.amount, in.category, CapFor(in.category))

\* addExpense resolved: the rest of the try block and the finally
AddExpenseResolve ==
  \E p \in pending :
    LET new  == p.items[1]
        next == <<new>> \o p.snap
        am   == AfterMutation(next, p.uk, p.asOf)
    IN
    /\ p.kind = "add" /\ p.authed /\ ~effectPending
    /\ pending' = pending \ {p}
    /\ store' = store \cup {new}
    /\ expenses' = next
    /\ alerts' = am.alerts
    /\ savedSummary' = am.recon.summary
    /\ ledger' = [ledger EXCEPT ![p.uk] = am.recon.ledger]
    /\ isGlobalLoading' = FALSE
    /\ effectPending' = TRUE
    /\ lastOp' = [p.op EXCEPT !.op = "add_done", !.calls = am.calls]
    /\ RequestAnalysis(next)
    /\ UNCHANGED <<nextId, user, now, applySavings, loadState,
                   dismissed, advisoryOnline, lastAnalysis>>

\* addExpense threw ('User not authenticated', or the write failed)
AddExpenseReject_noFinally ==
  \E p \in pending :
    /\ p.kind = "add" /\ ~effectPending
    /\ pending' = pending \ {p}
    /\ lastOp' = [p.op EXCEPT !.op = "add_failed"]
    /\ UNCHANGED <<store, nextId, ledger, user, now, expenses, alerts,
                   savedSummary, applySavings, loadState, effectPending,
                   isGlobalLoading,
                   dismissed, advisoryOnline, analysisRequests, analysisSeq, lastAnalysis>>
AddExpenseReject_optimistic ==
  \E p \in pending :
    /\ p.kind = "add" /\ ~effectPending
    /\ pending' = pending \ {p}
    /\ isGlobalLoading' = FALSE
    /\ expenses' = p.items \o p.snap
    /\ effectPending' = TRUE
    /\ lastOp' = [p.op EXCEPT !.op = "add_failed"]
    /\ UNCHANGED <<store, nextId, ledger, user, now, alerts,
                   savedSummary, applySavings, loadState,
                   dismissed, advisoryOnline, analysisRequests, analysisSeq, lastAnalysis>>
AddExpenseReject ==
  \E p \in pending :
    /\ p.kind = "add" /\ ~effectPending
    /\ pending' = pending \ {p}
    /\ isGlobalLoading' = FALSE
    /\ lastOp' = [p.op EXCEPT !.op = "add_failed"]
    /\ UNCHANGED <<store, nextId, ledger, user, now, expenses, alerts,
                   savedSummary, applySavings, loadState, effectPending,
                   dismissed, advisoryOnline, analysisRequests, analysisSeq, lastAnalysis>>

\* setAlerts(alerts.filter(a => a.id !== id))
HandleDismissAlert ==
  \E a \in badAlerts :
    /\ UiFree
    /\ alerts' = alerts \ {a}
    /\ dismissed' = a
    /\ lastOp' = [NoOp EXCEPT !.op = "dismiss"]
    /\ UNCHANGED <<store, nextId, ledger, user, now, expenses, savedSummary,
                   applySavings, isGlobalLoading, loadState, pending,
                   effectPending,
                   advisoryOnline, analysisRequests, analysisSeq, lastAnalysis>>

\* handleDeleteExpense up to its await deleteExpense(id); ExpenseList shows
\* the first six expenses and hands over the id of the one clicked
HandleDeleteExpenseWithin(limit) ==
  \E i \in 1..Min(6, Len(expenses)) :
    LET id == expenses[i].id
        found == SelectSeq(expenses, LAMBDA e : e.id = id)
    IN
    /\ UiFree
    /\ found # <<>>
    /\ found[1].source = "MANUAL"
    /\ Cardinality(pending) < limit
    /\ pending' = pending \cup
         {[kind |-> "delete", snap |-> expenses, uk |-> UserKey(user),
           asOf |-> now, items |-> <<found[1]>>, authed |-> user # NoUser,
           op |-> [NoOp EXCEPT !.op = "delete"]]}
    /\ lastOp' = [NoOp EXCEPT !.op = "delete_issued"]
    /\ UNCHANGED <<store, nextId, ledger, user, now, expenses, alerts,
                   savedSummary, applySavings, isGlobalLoading, loadState,
                   effectPending,
                   dismissed, advisoryOnline, analysisRequests, analysisSeq, lastAnalysis>>

HandleDeleteExpense == HandleDeleteExpenseWithin(MaxPending)

\* deleteExpense resolved: the rest of the try block; reconcile is called
\* without now
DeleteResolve ==
  \E p \in pending :
    LET id   == p.items[1].id
        next == SelectSeq(p.snap, LAMBDA e : e.id # id)
        am   == AfterMutation(next, p.uk, now)
    IN
    /\ p.kind = "delete" /\ p.authed /\ ~effectPending
    /\ pending' = pending \ {p}
    /\ store' = {d \in store : d.id # id}
    /\ expenses' = next
    /\ alerts' = am.alerts
    /\ savedSummary' = am.recon.summary
    /\ ledger' = [ledger EXCEPT ![p.uk] = am.recon.ledger]
    /\ effectPending' = TRUE
    /\ lastOp' = [NoOp EXCEPT !.op = "delete_done", !.uk = p.uk,
                                !.calls = am.calls]
    /\ RequestAnalysis(next)
    /\ UNCHANGED <<nextId, user, now, applySavings, isGlobalLoading, loadState,
                   dismissed, advisoryOnline, lastAnalysis>>

\* deleteExpense threw
DeleteReject ==
  \E p \in pending :
    /\ p.kind = "delete" /\ ~effectPending
    /\ pending' = pending \ {p}
    /\ lastOp' = [NoOp EXCEPT !.op = "delete_failed"]
    /\ UNCHANGED <<store, nextId, ledger, user, now, expenses, alerts,
                   savedSummary, applySavings, isGlobalLoading, loadState,
                   effectPending,
                   dismissed, advisoryOnline, analysisRequests, analysisSeq, lastAnalysis>>

\* ------------------------------------------------- CSV import (CSVUpload.tsx)
\* descriptions are sequences of characters
Includes(text, word) ==
  \E i \in 1..(Len(text) - Len(word) + 1) :
    SubSeq(text, i, i + Len(word) - 1) = word

UpperCase == <<"A", "B", "C", "D", "E", "F", "G", "H", "I", "J", "K", "L", "M",
               "N", "O", "P", "Q", "R", "S", "T", "U", "V", "W", "X", "Y", "Z">>
LowerCase == <<"a", "b", "c", "d", "e", "f", "g", "h", "i", "j", "k", "l", "m",
               "n", "o", "p", "q", "r", "s", "t", "u", "v", "w", "x", "y", "z">>
LowerChar(c) ==
  IF \E i \in 1..26 : UpperCase[i] = c
  THEN LowerCase[CHOOSE i \in 1..26 : UpperCase[i] = c]
  ELSE c
LowerText(text) == [i \in 1..Len(text) |-> LowerChar(text[i])]

\* the keyword groups of bankRecordToExpense, in the order of its else-if chain
KeywordGroups ==
  <<[category |-> "food", keywords |->
      {<<"f", "o", "o", "d">>,
       <<"r", "e", "s", "t", "a", "u", "r", "a", "n", "t">>,
       <<"c", "a", "f", "e">>,
       <<"s", "w", "i", "g", "g", "y">>,
       <<"z", "o", "m", "a", "t", "o">>}],
    [category |-> "transport", keywords |->
      {<<"u", "b", "e", "r">>,
       <<"o", "l", "a">>,
       <<"t", "a", "x", "i">>,
       <<"b", "u", "s">>,
       <<"m", "e", "t", "r", "o">>}],
    [category |-> "shopping", keywords |->
      {<<"a", "m", "a", "z", "o", "n">>,
       <<"f", "l", "i", "p", "k", "a", "r", "t">>,
       <<"m", "y", "n", "t", "r", "a">>,
       <<"s", "h", "o", "p", "p", "i", "n", "g">>}],
    [category |-> "entertainment", keywords |->
      {<<"n", "e", "t", "f", "l", "i", "x">>,
       <<"p", "r", "i", "m", "e">>,
       <<"h", "o", "t", "s", "t", "a", "r">>,
       <<"m", "o", "v", "i", "e">>}],
    [category |-> "bills", keywords |->
      {<<"e", "l", "e", "c", "t", "r", "i", "c", "i", "t", "y">>,
       <<"w", "a", "t", "e", "r">>,
       <<"g", "a", "s">>,
       <<"i", "n", "t", "e", "r", "n", "e", "t">>,
       <<"p", "h", "o", "n", "e">>}],
    [category |-> "subscriptions", keywords |->
      {<<"s", "u", "b", "s", "c", "r", "i", "p", "t", "i", "o", "n">>,
       <<"s", "p", "o", "t", "i", "f", "y">>,
       <<"a", "p", "p", "l", "e", " ", "m", "u", "s", "i", "c">>}],
    [category |-> "groceries", keywords |->
      {<<"g", "r", "o", "c", "e", "r", "y">>,
       <<"s", "u", "p", "e", "r", "m", "a", "r", "k", "e", "t">>,
       <<"b", "i", "g", "b", "a", "s", "k", "e", "t">>}],
    [category |-> "health", keywords |->
      {<<"h", "o", "s", "p", "i", "t", "a", "l">>,
       <<"m", "e", "d", "i", "c", "a", "l">>,
       <<"p", "h", "a", "r", "m", "a", "c", "y">>}]>>

RECURSIVE FirstGroup(_, _)
FirstGroup(text, i) ==
  IF i > Len(KeywordGroups) THEN "other"
  ELSE IF \E w \in KeywordGroups[i].keywords : Includes(text, w)
       THEN KeywordGroups[i].category
       ELSE FirstGroup(text, i + 1)

InferCategory_caseSensitive(description) == FirstGroup(description, 1)

InferCategory(description) == FirstGroup(LowerText(description), 1)

\* String.prototype.trim on a sequence of characters
RECURSIVE TrimStart(_)
TrimStart(text) ==
  IF text # <<>> /\ Head(text) = " " THEN TrimStart(Tail(text)) ELSE text

Trim(text) == Reverse(TrimStart(Reverse(TrimStart(text))))

Digits == <<"0", "1", "2", "3", "4", "5", "6", "7", "8", "9">>
IsDigit(c) == \E i \in 1..10 : Digits[i] = c
DigitValue(c) == (CHOOSE i \in 1..10 : Digits[i] = c) - 1

\* the value of the longest run of digits text starts with, after acc
RECURSIVE LeadingDigits(_, _)
LeadingDigits(text, acc) ==
  IF text # <<>> /\ IsDigit(Head(text))
  THEN LeadingDigits(Tail(text), 10 * acc + DigitValue(Head(text)))
  ELSE acc

\* parseFloat on cells without a fraction: leading blanks are skipped, a sign
\* is read, then the longest run of digits; whatever follows is ignored, and
\* the result is NaN only when no digit is found there
parseFloat(cell) ==
  LET t == TrimStart(cell)
      signed == t # <<>> /\ Head(t) \in {"-", "+"}
      body == IF signed THEN Tail(t) ELSE t
      magnitude == LeadingDigits(body, 0)
  IN  IF body = <<>> \/ ~IsDigit(Head(body))
      THEN [nan |-> TRUE, value |-> 0]
      ELSE [nan |-> FALSE,
            value |-> IF signed /\ Head(t) = "-" THEN 0 - magnitude
                      ELSE magnitude]

Abs(n) == IF n < 0 THEN 0 - n ELSE n

\* the date strings new Date(...) is given, and the month each falls in;
\* any other string gives an Invalid Date
KnownDates ==
  { [text |-> <<"2", "0", "2", "4", "-", "0", "1", "-", "1", "0">>, month |-> 0],
    [text |-> <<"2", "0", "2", "4", "-", "0", "2", "-", "1", "0">>, month |-> 1] }
IsDate(cell) == \E d \in KnownDates : d.text = cell
MonthOf(cell) == (CHOOSE d \in KnownDates : d.text = cell).month

DateWord == <<"d", "a", "t", "e">>
DescriptionWord == <<"d", "e", "s", "c", "r", "i", "p", "t", "i", "o", "n">>
AmountWord == <<"a", "m", "o", "u", "n", "t">>
TypeWord == <<"t", "y", "p", "e">>
DebitWord == <<"d", "e", "b", "i", "t">>
CreditWord == <<"c", "r", "e", "d", "i", "t">>
RequiredHeaders == <<DateWord, DescriptionWord, AmountWord, TypeWord>>

Thrown(kind, row) ==
  [ok |-> FALSE, records |-> <<>>, error |-> [kind |-> kind, row |-> row]]

\* a CSV text is the sequence of its lines, a line the sequence of the cells
\* its commas separate; line.trim() is empty for a line of one blank cell
IsBlankLine(line) == Len(line) = 1 /\ Trim(line[1]) = <<>>

\* record[header] = values[index] for every header: the last column of a
\* name is the one that counts
Field(headers, values, name) ==
  LET at == {i \in 1..Len(headers) : headers[i] = name}
  IN  values[CHOOSE i \in at : \A j \in at : j <= i]

\* the for loop of parseCSV from lines[i]; i + 1 is what the messages show
RECURSIVE ParseRows(_, _, _, _)
ParseRows(lines, headers, i, records) ==
  IF i >= Len(lines) THEN [ok |-> TRUE, records |-> records, error |-> NoError]
  ELSE
    LET values == [k \in 1..Len(lines[i + 1]) |-> Trim(lines[i + 1][k])]
        date == Field(headers, values, DateWord)
        amount == parseFloat(Field(headers, values, AmountWord))
        type == LowerText(Field(headers, values, TypeWord))
    IN  IF Len(values) # Len(headers) THEN Thrown("columns", i + 1)
        ELSE IF ~IsDate(date) THEN Thrown("date", i + 1)
        ELSE IF amount.nan THEN Thrown("amount", i + 1)
        ELSE IF type # DebitWord /\ type # CreditWord
        THEN Thrown("type", i + 1)
        ELSE ParseRows(lines, headers, i + 1,
               Append(records,
                 [date |-> date,
                  description |-> Field(headers, values, DescriptionWord),
                  amount |-> Abs(amount.value),
                  type |-> type]))

parseCSV(csvContent) ==
  LET lines == SelectSeq(csvContent, LAMBDA line : ~IsBlankLine(line))
      headers == IF lines = <<>> THEN <<>>
                 ELSE [k \in 1..Len(lines[1]) |-> LowerText(Trim(lines[1][k]))]
  IN  IF Len(lines) < 2 THEN Thrown("rows", 0)
      ELSE IF \E k \in 1..4 : RequiredHeaders[k] \notin SeqToSet(headers)
      THEN Thrown("column", 0)
      ELSE ParseRows(lines, headers, 1, <<>>)

bankRecordToExpense(record) ==
  [amount |-> record.amount, category |-> InferCategory(record.description),
   date |-> MonthOf(record.date), isImpulse |-> FALSE, source |-> "AUTO"]

\* cells and lines the upload is exercised with
Jan10 == <<"2", "0", "2", "4", "-", "0", "1", "-", "1", "0">>
Feb10 == <<"2", "0", "2", "4", "-", "0", "2", "-", "1", "0">>
Header == <<DateWord, DescriptionWord, AmountWord, TypeWord>>
HeaderCapitals ==
  <<<<"D", "a", "t", "e">>,
    <<" ", "D", "e", "s", "c", "r", "i", "p", "t", "i", "o", "n">>,
    <<" ", "A", "m", "o", "u", "n", "t">>, <<" ", "T", "y", "p", "e", " ">>>>
HeaderNoType == <<DateWord, DescriptionWord, AmountWord>>
BlankLine == <<<<" ">>>>
UberDebit == <<Feb10, <<"U", "b", "e", "r">>, <<"6", "0", "0">>, DebitWord>>
PayCredit == <<Feb10, <<"p", "a", "y">>, <<"1", "0", "0">>, CreditWord>>
ZomatoDebit ==
  <<Jan10, <<"Z", "o", "m", "a", "t", "o">>, <<"-", "5", "0">>,
    <<"D", "E", "B", "I", "T">>>>
WordAmount == <<Feb10, <<"U", "b", "e", "r">>, <<"a", "b", "c">>, DebitWord>>
MixedAmount ==
  <<Feb10, <<"U", "b", "e", "r">>, <<"1", "2", "a", "b", "c">>, DebitWord>>
OtherType ==
  <<Feb10, <<"p", "a", "y">>, <<"1", "0", "0">>,
    <<"r", "e", "f", "u", "n", "d">>>>
NoDate == <<<<"s", "o", "o", "n">>, <<"p", "a", "y">>, <<"1", "0", "0">>, DebitWord>>
ShortRow == <<Feb10, <<"p", "a", "y">>, <<"1", "0", "0">>>>
ZeroDebit == <<Feb10, <<"f", "e", "e">>, <<"0">>, DebitWord>>

\* the bank statements the dashboard's upload is exercised with
CsvFiles ==
  { <<Header, UberDebit>>,
    <<HeaderCapitals, PayCredit, ZomatoDebit>>,
    <<Header, PayCredit>>,
    <<Header, BlankLine, UberDebit, WordAmount>> }

\* const debitRecords = bankRecords.filter(r => r.type === 'debit')
DebitRecords_all(bankRecords) == bankRecords
DebitRecords(bankRecords) ==
  SelectSeq(bankRecords, LAMBDA r : r.type = DebitWord)

\* lines 39-56 for one file: parseCSV, the debit filter and
\* bankRecordToExpense on every debit record, none of which looks at the
\* dashboard
Decode(file) ==
  LET parsed == parseCSV(file)
      debitRecords == DebitRecords(parsed.records)
  IN  [ok |-> parsed.ok, error |-> parsed.error,
       converted |-> [i \in 1..Len(debitRecords) |->
                        bankRecordToExpense(debitRecords[i])]]

Decoded == [file \in CsvFiles |-> Decode(file)]

\* lines 55-63: classify the converted records against existingExpenses
RECURSIVE ToExpenses(_, _)
ToExpenses(converted, existing) ==
  IF converted = <<>> THEN <<>>
  ELSE <<[Head(converted) EXCEPT !.isImpulse =
            classifyExpense(Head(converted), existing, now).impulse]>>
       \o ToExpenses(Tail(converted), existing)

\* handleFileSelect up to its await addExpenses(expensesToAdd), or through
\* its catch when parseCSV or the debit filter throws
HandleFileSelectOf(file, decoded) ==
  LET toAdd == ToExpenses(decoded.converted, expenses)
      error == IF ~decoded.ok THEN decoded.error
               ELSE [kind |-> "no_debit", row |-> 0]
  IN
  /\ UiFree
  /\ \A q \in pending : q.kind # "import"
  /\ IF ~decoded.ok \/ decoded.converted = <<>>
     THEN /\ lastOp' = [NoOp EXCEPT !.op = "import_refused", !.err = error,
                                     !.file = file]
          /\ UNCHANGED <<pending, nextId>>
     ELSE /\ Cardinality(pending) < MaxPending
          /\ nextId + Len(toAdd) - 1 <= IdLimit
          /\ nextId' = nextId + Len(toAdd)
          /\ lastOp' = [NoOp EXCEPT !.op = "import_issued", !.file = file]
          /\ pending' = pending \cup
               {[kind |-> "import", snap |-> expenses, uk |-> UserKey(user),
                 asOf |-> now, items |-> WithIds(toAdd, nextId),
                 authed |-> user # NoUser,
                 op |-> [NoOp EXCEPT !.op = "import", !.file = file]]}
  /\ UNCHANGED <<store, ledger, user, now, expenses, alerts, savedSummary,
                 applySavings, isGlobalLoading, loadState, effectPending,
                 dismissed, advisoryOnline, analysisRequests, analysisSeq,
                 lastAnalysis>>

HandleFileSelect == \E file \in CsvFiles : HandleFileSelectOf(file, Decoded[file])

\* addExpenses resolved: onUploadSuccess(newExpenses), that is
\* setIsGlobalLoading(true) and handleCSVUploadSuccess
ImportResolve ==
  \E p \in pending :
    LET next == p.items \o p.snap
        am   == AfterMutation(next, p.uk, now)
    IN
    /\ p.kind = "import" /\ p.authed /\ ~effectPending
    /\ pending' = pending \ {p}
    /\ store' = store \cup SeqToSet(p.items)
    /\ expenses' = next
    /\ alerts' = am.alerts
    /\ savedSummary' = am.recon.summary
    /\ ledger' = [ledger EXCEPT ![p.uk] = am.recon.ledger]
    /\ isGlobalLoading' = FALSE
    /\ effectPending' = TRUE
    /\ lastOp' = [p.op EXCEPT !.op = "import_done", !.uk = p.uk,
                                !.calls = am.calls]
    /\ RequestAnalysis(next)
    /\ UNCHANGED <<nextId, user, now, applySavings, loadState,
                   dismissed, advisoryOnline, lastAnalysis>>

\* addExpenses threw: the catch of handleFileSelect
ImportReject ==
  \E p \in pending :
    /\ p.kind = "import" /\ ~effectPending
    /\ pending' = pending \ {p}
    /\ lastOp' = [NoOp EXCEPT !.op = "import_failed"]
    /\ UNCHANGED <<store, nextId, ledger, user, now, expenses, alerts,
                   savedSummary, applySavings, isGlobalLoading, loadState,
                   effectPending,
                   dismissed, advisoryOnline, analysisRequests, analysisSeq, lastAnalysis>>

\* ------------------------------------------------------ advisory (Gemini)
\* requestGeminiAnalysis(...) resolved: .then(setLastAnalysis), or the effect's
\* setLastAnalysis(analysis); nothing compares the answer with the one stored
AnalysisResolve ==
  \E r \in analysisRequests :
    /\ ~effectPending
    /\ analysisRequests' = analysisRequests \ {r}
    /\ lastAnalysis' = r
    /\ UNCHANGED <<store, nextId, ledger, user, now, expenses, alerts,
                   savedSummary, applySavings, isGlobalLoading, loadState,
                   pending, effectPending, lastOp, dismissed, advisoryOnline,
                   analysisSeq>>

\* requestGeminiAnalysis(...) rejected: .catch(() => {}) in the handlers, an
\* unhandled rejection in the effect
AnalysisReject_clears ==
  \E r \in analysisRequests :
    /\ ~effectPending
    /\ analysisRequests' = analysisRequests \ {r}
    /\ lastAnalysis' = NoAnalysis
    /\ UNCHANGED <<store, nextId, ledger, user, now, expenses, alerts,
                   savedSummary, applySavings, isGlobalLoading, loadState,
                   pending, effectPending, lastOp, dismissed, advisoryOnline,
                   analysisSeq>>
AnalysisReject ==
  \E r \in analysisRequests :
    /\ ~effectPending
    /\ analysisRequests' = analysisRequests \ {r}
    /\ UNCHANGED <<store, nextId, ledger, user, now, expenses, alerts,
                   savedSummary, applySavings, isGlobalLoading, loadState,
                   pending, effectPending, lastOp, dismissed, advisoryOnline,
                   analysisSeq, lastAnalysis>>

\* ------------------------------------------------------------- environment
\* the page is reloaded (between operations): the component state is gone,
\* the store, localStorage and the session are not
Reload ==
  /\ pending = {} /\ loadState = "done" /\ UiFree
  /\ expenses' = <<>>
  /\ alerts' = {}
  /\ savedSummary' = InitialSummary
  /\ applySavings' = FALSE
  /\ loadState' = "loading"
  /\ effectPending' = TRUE
  /\ lastOp' = [NoOp EXCEPT !.op = "reload"]
  /\ analysisRequests' = {}
  /\ lastAnalysis' = NoAnalysis
  /\ UNCHANGED <<store, nextId, ledger, user, now, isGlobalLoading, pending,
                 dismissed, advisoryOnline, analysisSeq>>

\* login / logout: useAuth().user changes under the mounted dashboard
SwitchUser ==
  \E u \in Users \cup {NoUser} :
    /\ UiFree
    /\ u # user
    /\ user' = u
    /\ effectPending' = (UserKey(u) # UserKey(user))
    /\ lastOp' = [NoOp EXCEPT !.op = "switch_user", !.uk = UserKey(u)]
    /\ UNCHANGED <<store, nextId, ledger, now, expenses, alerts, savedSummary,
                   applySavings, isGlobalLoading, loadState, pending,
                   dismissed, advisoryOnline, analysisRequests, analysisSeq, lastAnalysis>>

\* the calendar month changes (between operations)
Tick ==
  /\ now < MaxMonth
  /\ pending = {} /\ loadState = "done" /\ UiFree
  /\ now' = now + 1
  /\ UNCHANGED <<store, nextId, ledger, user, expenses, alerts, savedSummary,
                 applySavings, isGlobalLoading, loadState, pending,
                 effectPending, lastOp,
                 dismissed, advisoryOnline, analysisRequests, analysisSeq, lastAnalysis>>

Next ==
  \/ LoadResolve
  \/ LoadReject
  \/ ReconcileEffect
  \/ ToggleApplySavings
  \/ HandleAddExpense
  \/ AddExpenseResolve
  \/ AddExpenseReject
  \/ HandleDismissAlert
  \/ HandleDeleteExpense
  \/ DeleteResolve
  \/ DeleteReject
  \/ HandleFileSelect
  \/ ImportResolve
  \/ ImportReject
  \/ SwitchUser
  \/ Tick
  \/ Reload

Spec == Init /\ [][Next]_vars

\* The dashboard of one user within one month with computeCategoryCap left
\* open: the handler is given any cap the function may return (null or a
\* non-negative number), whatever the alerts are.
HandleAddExpenseAnyCap ==
  \E in \in AddInputs :
    \E cap \in CapValues :
      HandleAddExpenseWith(in.amount, in.category, cap)

NextAnyCap ==
  \/ LoadResolve
  \/ LoadReject
  \/ ReconcileEffect
  \/ ToggleApplySavings
  \/ HandleAddExpenseAnyCap
  \/ AddExpenseResolve
  \/ AddExpenseReject
  \/ HandleDeleteExpense
  \/ DeleteResolve
  \/ DeleteReject
  \/ HandleFileSelect
  \/ ImportResolve
  \/ ImportReject

SpecAnyCap == Init /\ [][NextAnyCap]_vars

\* The same dashboard where React runs the pending effects and every
\* addExpense call returns or fails.
SpecLive ==
  /\ Init /\ [][NextAnyCap]_vars
  /\ WF_vars(ReconcileEffect)
  /\ WF_vars(AddExpenseReject \/ AddExpenseResolve)

\* The dashboard of one user within one month, toggle off, with the advisory
\* service answering, failing or staying silent.
InitAdvisory ==
  /\ Mounted
  /\ advisoryOnline = TRUE
  /\ store \in InitialStores
  /\ nextId = InitialDocs + 1

NextAdvisory ==
  \/ LoadResolve
  \/ LoadReject
  \/ ReconcileEffect
  \/ HandleAddExpense
  \/ AddExpenseResolve
  \/ AddExpenseReject
  \/ HandleDeleteExpense
  \/ DeleteResolve
  \/ DeleteReject
  \/ HandleFileSelect
  \/ ImportResolve
  \/ ImportReject
  \/ AnalysisResolve
  \/ AnalysisReject

SpecAdvisory == InitAdvisory /\ [][NextAdvisory]_vars

\* The dashboard of one user within one month, toggle off, where a delete may
\* be clicked while up to MaxDeletes - 1 earlier deletes are still with the
\* store (nothing disables the delete buttons).
HandleDeleteExpenseConcurrent == HandleDeleteExpenseWithin(MaxDeletes)

NextDeletes ==
  \/ LoadResolve
  \/ LoadReject
  \/ ReconcileEffect
  \/ HandleAddExpense
  \/ AddExpenseResolve
  \/ AddExpenseReject
  \/ HandleDeleteExpenseConcurrent
  \/ DeleteResolve
  \/ DeleteReject

SpecDeletes == Init /\ [][NextDeletes]_vars

\* The upload of one file, given any CSV text of a header and up to MaxLines
\* lines, on the loaded dashboard of a user with or without stored expenses.
HeaderLines == {Header, HeaderCapitals, HeaderNoType}
BodyLines ==
  {UberDebit, PayCredit, ZomatoDebit, WordAmount, MixedAmount, OtherType,
   NoDate, ShortRow, BlankLine, ZeroDebit}
AllCsvFiles ==
  {<<h>> \o body : h \in HeaderLines,
                   body \in UNION {[1..k -> BodyLines] : k \in 0..MaxLines}}

InitCSV ==
  /\ Mounted
  /\ advisoryOnline = FALSE
  /\ store \in {{}} \cup InitialStores
  /\ nextId = Cardinality(store) + 1

DecodedAny == [file \in AllCsvFiles |-> Decode(file)]

\* one file is uploaded in a run, once the mount-time load has returned
HandleFileSelectAny ==
  /\ lastOp.op \in {"load_done", "load_failed"}
  /\ \E file \in AllCsvFiles : HandleFileSelectOf(file, DecodedAny[file])

NextCSV ==
  \/ LoadResolve
  \/ LoadReject
  \/ ReconcileEffect
  \/ HandleFileSelectAny
  \/ ImportResolve
  \/ ImportReject

SpecCSV == InitCSV /\ [][NextCSV]_vars

\* -------------------------------------------------------------- properties
\* a step in which handleAddExpense ran up to its return or its await
AddStarted == lastOp' # lastOp /\ lastOp'.op \in {"add_blocked", "add_issued"}

\* a step in which the continuation of a successful addExpense ran
AddCompleted == lastOp'.op = "add_done" /\ pending' # pending

Remaining(op) == Max(0, op.cap - op.mt)
Capped(op) == op.apply /\ op.cap # NoCap

\* C1: with the toggle on, a non-null cap and remaining <= 0, handleAddExpense
\* returns without calling the store's add, and leaves the store, the
\* transaction list and the alert list as they were.
C1_BlockedAddChangesNothing ==
  [][(AddStarted /\ Capped(lastOp') /\ Remaining(lastOp') <= 0)
       => /\ lastOp'.op = "add_blocked"
          /\ pending' = pending
          /\ store' = store
          /\ expenses' = expenses
          /\ alerts' = alerts]_vars

C1_Witness ==
  /\ lastOp.op = "add_blocked"
  /\ Capped(lastOp)
  /\ Remaining(lastOp) <= 0
  /\ expenses # <<>>
  /\ pending = {}

\* C2: a fully blocked manual add raises the summary's prevented bucket and
\* its total by exactly the requested amount.
C2_BlockedAmountIsPrevented ==
  [][(AddStarted /\ Capped(lastOp') /\ Remaining(lastOp') <= 0)
       => /\ savedSummary'.prevented = savedSummary.prevented + lastOp'.req
          /\ savedSummary'.total = savedSummary.total + lastOp'.req]_vars

\* C3: with the toggle on, a cap and remaining > 0, the amount written to the
\* store and shown in the list is min(requested, remaining); cap 500, spend
\* 450 and a request of 100 commit 50.
C3_CommittedIsMinOfRequestAndRemaining ==
  [][(AddCompleted /\ Capped(lastOp') /\ Remaining(lastOp') > 0)
       => /\ Head(expenses').amount = Min(lastOp'.req, Remaining(lastOp'))
          /\ \E d \in store' \ store :
               /\ d.id = Head(expenses').id
               /\ d.amount = Min(lastOp'.req, Remaining(lastOp'))
          /\ CapDecision(TRUE, 500, 450, 100)
               = [blocked |-> FALSE, finalAmount |-> 50]]_vars

C3_Witness ==
  /\ lastOp.op = "add_done"
  /\ Capped(lastOp)
  /\ Remaining(lastOp) > 0
  /\ lastOp.req > Remaining(lastOp)
  /\ expenses # <<>>
  /\ Head(expenses).amount = Remaining(lastOp)

Amounts(s) == [i \in 1..Len(s) |-> s[i].amount]
DebitAmounts(file) == Amounts(Decoded[file].converted)

\* C5: with the toggle off, or without a cap, a manual add is sent to the store
\* and listed with exactly the requested amount, whatever the alerts are; an
\* import sends every debit row with its own amount.
C5_NoCapNoChange ==
  [][/\ (AddStarted /\ ~Capped(lastOp'))
          => /\ lastOp'.op = "add_issued"
             /\ \E p \in pending' \ pending :
                  p.kind = "add" /\ p.items[1].amount = lastOp'.req
     /\ (AddCompleted /\ ~Capped(lastOp'))
          => /\ Head(expenses').amount = lastOp'.req
             /\ \E d \in store' \ store : d.amount = lastOp'.req
     /\ \A p \in pending' \ pending :
          p.kind = "import"
            => \E file \in CsvFiles : Amounts(p.items) = DebitAmounts(file)
     /\ \A p \in pending \ pending' :
          (p.kind = "import" /\ lastOp'.op = "import_done")
            => /\ SeqToSet(p.items) \subseteq store'
               /\ SubSeq(expenses', 1, Len(p.items)) = p.items]_vars

C5_Witness ==
  /\ lastOp.op = "add_done"
  /\ lastOp.apply
  /\ lastOp.cap = NoCap
  /\ Head(expenses).amount = lastOp.req

\* C6: an AUTO transaction that is in the transaction list is never removed
\* from the list or from the store; a delete is sent to the store only for a
\* listed transaction whose source is MANUAL.
C6_AutoIsNeverRemoved ==
  [][/\ \A e \in SeqToSet(expenses) :
          e.source = "AUTO" => e \in SeqToSet(expenses')
     /\ \A d \in store : d.source = "AUTO" => d \in store'
     /\ \A p \in pending' \ pending :
          p.kind = "delete"
            => /\ p.items[1] \in SeqToSet(expenses)
               /\ p.items[1].source = "MANUAL"]_vars

DoneOps == {"add_done", "delete_done", "import_done"}
CoreCalls == <<"recomputeAlerts", "reconcileSavingsLedger">>

\* a step in which the continuation of a successful store call ran
MutationCompleted == lastOp'.op \in DoneOps /\ pending' # pending

\* C7: when a mutation completes, the alert list is the rebuild of the
\* post-mutation list and then the summary is the reconciliation of that
\* same list; no manual add computes its cap between the two.
C7_AlertsThenLedgerAfterMutation ==
  [][/\ MutationCompleted
          => \E p \in pending \ pending' :
               /\ alerts' = recomputeAlerts(expenses', now)
               /\ ledger'[p.uk] =
                    reconcileSavingsLedger(ledger[p.uk], expenses', p.asOf).ledger
               /\ savedSummary' = SummaryOf(ledger'[p.uk])
               /\ lastOp'.calls = CoreCalls
     /\ AddStarted
          => /\ ~effectPending
             /\ lastOp.op \in DoneOps => lastOp.calls = CoreCalls]_vars

C7_Witness ==
  /\ lastOp.op = "add_blocked"
  /\ Len(expenses) = 4
  /\ \E i \in 1..Len(expenses) :
       expenses[i].id > InitialDocs /\ expenses[i].source = "MANUAL"
  /\ \E a \in alerts : a.severity = "bad" /\ a.category = "food"
  /\ alerts = recomputeAlerts(expenses, now)

AlertKey(a) == <<a.category, a.title, a.period>>

\* a step in which a handler rebuilt the alert list: the mount-time load or
\* the continuation of an add, a delete or an import
RebuildStep == lastOp' # lastOp /\ lastOp'.op \in DoneOps \cup {"load_done"}

Occurrences(list, category) ==
  Cardinality({i \in 1..Len(list) :
                 list[i].category = category /\ list[i].date = now})

\* C12: handleDismissAlert removes the alert from the alert list and touches
\* nothing else; after a later load, add, delete or import the dismissed
\* alert is listed again whenever its category still has 4 or more
\* transactions in the current month.
C12_DismissalIsTransient ==
  [][/\ (lastOp'.op = "dismiss" /\ alerts' # alerts)
          => /\ alerts' = alerts \ {dismissed'}
             /\ dismissed' \in alerts
             /\ expenses' = expenses
             /\ store' = store
             /\ ledger' = ledger
             /\ savedSummary' = savedSummary
     /\ (/\ RebuildStep
         /\ dismissed # NoAlert
         /\ dismissed.period = now'
         /\ Occurrences(expenses', dismissed.category) >= 4)
          => \E a \in alerts' : AlertKey(a) = AlertKey(dismissed)]_vars

C12_Witness ==
  /\ lastOp.op = "load_done"
  /\ dismissed # NoAlert
  /\ dismissed \in alerts

\* C13: the impulse flag is true exactly for a food, shopping or
\* entertainment transaction of more than 500, whatever the history is: 500
\* gives false, 501 true, any other or unknown category false; every expense
\* a handler sends to the store carries that flag.
C13_ImpulseRule ==
  /\ \A c \in Categories \cup {"crypto"} : \A a \in {1, 499, 500, 501} :
       LET e == [amount |-> a, category |-> c, date |-> now]
           flag == c \in {"food", "shopping", "entertainment"} /\ a > 500
       IN  /\ classifyExpense(e, expenses, now).impulse = flag
           /\ classifyExpense(e, <<>>, now).impulse = flag
  /\ \A p \in pending : \A i \in 1..Len(p.items) :
       p.kind \in {"add", "import"}
         => p.items[i].isImpulse =
              (/\ p.items[i].category \in {"food", "shopping", "entertainment"}
               /\ p.items[i].amount > 500)

C13_Witness ==
  /\ \E p \in pending : p.kind = "add" /\ p.items[1].isImpulse
  /\ \E i \in 1..Len(expenses) : expenses[i].isImpulse
  /\ \E i \in 1..Len(expenses) : ~expenses[i].isImpulse

\* C14: the habit flag is true exactly when the candidate's category has at
\* least 3 listed transactions in the current month, the candidate being the
\* 4th or later; the 3rd gives false, other categories and months do not
\* count.
C14_HabitRule ==
  \A c \in Categories :
    LET e == [amount |-> 100, category |-> c, date |-> now]
    IN  classifyExpense(e, expenses, now).habit
          = (Occurrences(expenses, c) + 1 >= 4)

C14_Witness ==
  /\ Occurrences(expenses, "food") = 3
  /\ classifyExpense([amount |-> 100, category |-> "food", date |-> now],
                      expenses, now).habit
  /\ \E i \in 1..Len(expenses) :
       expenses[i].category = "food" /\ expenses[i].date # now

\* C15: the cap of a category is null without a bad alert for it, and
\* otherwise the month's spend in the category less the alert's
\* savingPotential, never below zero; spend 800 with savingPotential 300 caps
\* at 500, and empty lists give null.
C15_CapRule ==
  /\ \A c \in Categories :
       LET bad == {a \in alerts : a.severity = "bad" /\ a.category = c}
       IN  /\ bad = {} => CapFor(c) = NoCap
           /\ bad # {}
                => /\ CapFor(c) >= 0
                   /\ \E a \in bad :
                        CapFor(c) = Max(0, MonthTotal(expenses, c, now)
                                             - a.savingPotential)
  /\ \A sp \in {300, 900} :
       computeCategoryCap(
         <<Doc(1, 800, "food", now, "MANUAL")>>,
         {[category |-> "food", title |-> "habit", period |-> now,
           severity |-> "bad", savingPotential |-> sp]},
         "food", now) = Max(0, 800 - sp)
  /\ \A c \in Categories :
       /\ computeCategoryCap(<<>>, {}, c, now) = NoCap
       /\ computeCategoryCap(expenses, {}, c, now) = NoCap

C15_Witness ==
  /\ CapFor("food") >= 0
  /\ CapFor("bills") = NoCap
  /\ \E i \in 1..Len(expenses) : expenses[i].category = "bills"
  /\ \E a \in alerts : a.severity = "bad" /\ a.category = "food"

\* a step in which an advisory request was answered or failed
AnalysisStep == analysisRequests' # analysisRequests /\ lastOp' = lastOp
                  /\ effectPending' = effectPending

\* C16: when an add, a delete or an import completes, the transaction list,
\* the alert list and the summary take their post-mutation values and the
\* handler is done, whatever advisory requests are in flight; an answer or a
\* failure of the advisory service changes none of them, and a failure leaves
\* the stored analysis as it was.
C16_AdvisoryNeverAffectsCore ==
  [][/\ MutationCompleted
          => \E p \in pending \ pending' :
               /\ p.kind = "add" => expenses' = p.items \o p.snap
               /\ p.kind = "import" => expenses' = p.items \o p.snap
               /\ p.kind = "delete"
                    => expenses' =
                         SelectSeq(p.snap, LAMBDA e : e.id # p.items[1].id)
               /\ alerts' = recomputeAlerts(expenses', now)
               /\ savedSummary' = SummaryOf(ledger'[p.uk])
               /\ p.kind # "delete" => ~isGlobalLoading'
               /\ lastAnalysis' = lastAnalysis
     /\ AnalysisStep
          => /\ UNCHANGED <<store, ledger, expenses, alerts, savedSummary,
                            pending, isGlobalLoading, loadState>>
             /\ lastAnalysis' \in
                  {lastAnalysis} \cup (analysisRequests \ analysisRequests')]_vars

C16_Witness ==
  /\ lastOp.op \in DoneOps
  /\ ~effectPending
  /\ analysisRequests = {}
  /\ lastAnalysis # NoAnalysis
  /\ lastAnalysis.list # expenses
  /\ alerts = recomputeAlerts(expenses, now)
  /\ savedSummary = SummaryOf(ledger[lastOp.uk])

\* C17: the stored analysis is never replaced by the answer to a request
\* issued earlier for another transaction list: of two requests, the later
\* one's answer is the one stored once both have arrived.
C17_StaleAnalysisNeverOverwrites ==
  [][(lastAnalysis' # lastAnalysis /\ lastAnalysis'.list # lastAnalysis.list)
       => lastAnalysis'.seq > lastAnalysis.seq]_vars

\* a step in which handleFileSelect ran for the file lastOp' names
UploadStep ==
  lastOp' # lastOp /\ lastOp'.op \in {"import_refused", "import_issued"}

\* the cells of a line as the decoder reads them
Cells(line) == [k \in 1..Len(line) |-> Trim(line[k])]

\* the text is a number: an optional sign and then digits only
IsNumber(cell) ==
  LET body == IF cell # <<>> /\ Head(cell) \in {"-", "+"} THEN Tail(cell)
              ELSE cell
  IN  body # <<>> /\ \A k \in 1..Len(body) : IsDigit(body[k])

\* the numbers of the lines of a CSV text that hold a data row
DataLines(file) == {i \in 2..Len(file) : ~IsBlankLine(file[i])}

\* a data row under a header of date, description, amount, type that the
\* decoder has to refuse
RowInvalid(file, i) ==
  LET cells == Cells(file[i])
  IN  IF Len(cells) # Len(file[1]) \/ Len(cells) < 4 THEN TRUE
      ELSE \/ ~IsDate(cells[1])
           \/ ~IsNumber(cells[3])
           \/ LowerText(cells[4]) \notin {DebitWord, CreditWord}

MissingColumn(file) ==
  \E k \in 1..4 :
    RequiredHeaders[k] \notin {LowerText(c) : c \in SeqToSet(Cells(file[1]))}

\* C18: a CSV text with a missing required column or with any invalid data
\* row (column count, date, non-numeric amount, type) makes the upload fail
\* with the decoder's error: nothing is sent to the store and the transaction
\* list stays as it is, whatever valid rows come before.
C18_DecodingIsAllOrNothing ==
  [][(/\ UploadStep
      /\ \/ MissingColumn(lastOp'.file)
         \/ \E i \in DataLines(lastOp'.file) : RowInvalid(lastOp'.file, i))
       => /\ lastOp'.op = "import_refused"
          /\ lastOp'.err.kind
               \in {"rows", "column", "columns", "date", "amount", "type"}
          /\ pending' = pending
          /\ store' = store
          /\ expenses' = expenses]_vars

\* a data row the decoder's own checks turn down
RowRejected(file, i) ==
  LET cells == Cells(file[i])
  IN  IF Len(cells) # Len(file[1]) \/ Len(cells) < 4 THEN TRUE
      ELSE \/ ~IsDate(cells[1])
           \/ parseFloat(cells[3]).nan
           \/ LowerText(cells[4]) \notin {DebitWord, CreditWord}

\* C19: when the decoder rejects a row, the number in its message is the
\* number of that row's line in the CSV text, the header being line 1, blank
\* lines counted.
C19_ErrorNamesTheLine ==
  [][(UploadStep /\ lastOp'.err.kind \in {"columns", "date", "amount", "type"})
       => /\ lastOp'.err.row \in DataLines(lastOp'.file)
          /\ RowRejected(lastOp'.file, lastOp'.err.row)
          /\ \A i \in DataLines(lastOp'.file) :
               i < lastOp'.err.row => ~RowRejected(lastOp'.file, i)]_vars

\* the debit rows of a CSV text, in the order of the text
DebitLines(file) ==
  SelectSeq(file, LAMBDA line :
    /\ ~IsBlankLine(line) /\ line # file[1]
    /\ Len(line) >= 4 /\ LowerText(Trim(line[4])) = DebitWord)

CreditLines(file) ==
  SelectSeq(file, LAMBDA line :
    /\ ~IsBlankLine(line) /\ line # file[1]
    /\ Len(line) >= 4 /\ LowerText(Trim(line[4])) = CreditWord)

\* C20: an upload that goes through sends one expense per debit row, in the
\* order of the file and with source AUTO, and none for a credit row; once the
\* store has answered, exactly these are new in the store and head the list; a
\* text whose rows are all credits is refused and sends nothing.
C20_OneTransactionPerDebitRow ==
  [][/\ (UploadStep /\ lastOp'.op = "import_issued")
          => \E p \in pending' \ pending :
               LET rows == DebitLines(lastOp'.file)
               IN  /\ Len(p.items) = Len(rows)
                   /\ \A i \in 1..Len(rows) :
                        /\ p.items[i].source = "AUTO"
                        /\ p.items[i].amount
                             = Abs(parseFloat(Trim(rows[i][3])).value)
                        /\ p.items[i].date = MonthOf(Trim(rows[i][1]))
                        /\ p.items[i].category = InferCategory(Trim(rows[i][2]))
                        /\ p.items[i].id = nextId + i - 1
     /\ (lastOp' # lastOp /\ lastOp'.op = "import_done")
          => \E p \in pending \ pending' :
               /\ store' \ store = SeqToSet(p.items)
               /\ Cardinality(store' \ store) = Len(DebitLines(lastOp'.file))
               /\ expenses' = p.items \o p.snap
     /\ (/\ UploadStep
         /\ DebitLines(lastOp'.file) = <<>>
         /\ CreditLines(lastOp'.file) # <<>>)
          => /\ lastOp'.op = "import_refused"
             /\ pending' = pending
             /\ store' = store
             /\ expenses' = expenses]_vars

C20_Witness ==
  /\ lastOp.op = "import_done"
  /\ Len(DebitLines(lastOp.file)) = 1
  /\ Len(CreditLines(lastOp.file)) = 1
  /\ expenses # <<>>
  /\ Head(expenses).source = "AUTO"
  /\ Head(expenses) \in store
  /\ Len(expenses) > 1

\* the order in which the keyword groups are tested
GroupOrder ==
  <<"food", "transport", "shopping", "entertainment", "bills", "subscriptions",
    "groceries", "health">>

\* the category of the first group, in GroupOrder, with a keyword occurring in
\* the lower-cased description; other when there is none
FirstMatch(description) ==
  LET text == LowerText(description)
      hits == {i \in 1..Len(GroupOrder) :
                 \E g \in SeqToSet(KeywordGroups) :
                   /\ g.category = GroupOrder[i]
                   /\ \E w \in g.keywords : Includes(text, w)}
  IN  IF hits = {} THEN "other"
      ELSE GroupOrder[CHOOSE i \in hits : \A j \in hits : i <= j]

Swiggy == <<"S", "w", "i", "g", "g", "y", " ", "o", "r", "d", "e", "r">>
Restaurant ==
  <<"u", "b", "e", "r", " ", "t", "o", " ", "R", "E", "S", "T", "A", "U", "R",
    "A", "N", "T">>
OlaCab == <<"O", "l", "a", " ", "c", "a", "b">>
MetroCard == <<"m", "e", "t", "r", "o", " ", "c", "a", "r", "d">>
AmazonPrime == <<"A", "m", "a", "z", "o", "n", " ", "P", "r", "i", "m", "e">>
Salary == <<"s", "a", "l", "a", "r", "y">>
Descriptions ==
  {Swiggy, Restaurant, OlaCab, MetroCard, AmazonPrime, Salary, <<>>,
   <<"Z", "o", "m", "a", "t", "o">>, <<"U", "b", "e", "r">>, <<"p", "a", "y">>}
Inferred == [d \in Descriptions |-> InferCategory(d)]
Expected == [d \in Descriptions |-> FirstMatch(d)]

\* C21: the category of an imported record is a function of its lower-cased
\* description alone: the category of the first keyword group, in the order
\* food, transport, shopping, entertainment, bills, subscriptions, groceries,
\* health, that has a keyword occurring in it, and other without one; swiggy,
\* zomato and restaurant give food, uber, ola and metro without a food keyword
\* give transport; every expense an upload sends carries that category.
C21_CategoryInference ==
  /\ Inferred = Expected
  /\ \A d \in Descriptions : Inferred[d] \in Categories
  /\ Inferred[Swiggy] = "food"
  /\ Inferred[Restaurant] = "food"
  /\ Inferred[OlaCab] = "transport"
  /\ Inferred[MetroCard] = "transport"
  /\ Inferred[AmazonPrime] = "shopping"
  /\ Inferred[Salary] = "other"
  /\ Inferred[<<>>] = "other"
  /\ \A p \in pending :
       p.kind = "import"
         => LET rows == DebitLines(p.op.file)
            IN  \A i \in 1..Len(p.items) :
                  p.items[i].category = FirstMatch(Trim(rows[i][2]))

C21_Witness ==
  /\ lastOp.op = "import_done"
  /\ Len(DebitLines(lastOp.file)) = 2
  /\ expenses[1].source = "AUTO" /\ expenses[1].category = "food"
  /\ expenses[2].source = "AUTO" /\ expenses[2].category = "transport"
  /\ {expenses[1], expenses[2]} \subseteq store

FailedOps == {"add_failed", "delete_failed", "import_failed"}

\* a step in which the catch of a handler ran for a store call that threw
StoreCallFailed == lastOp'.op \in FailedOps /\ pending' # pending

\* C22: a store call issued without a current user fails and writes nothing,
\* the mount-time list included; when an add or a delete fails, the
\* transaction list, the alert list and the summary are what they were when
\* the handler started, the store is untouched and the call is not issued
\* again.
C22_StoreFailureChangesNothing ==
  [][/\ \A p \in pending \ pending' :
          ~p.authed => lastOp'.op \in FailedOps /\ store' = store
     /\ (loadState = "loading" /\ loadState' = "done" /\ user = NoUser)
          => lastOp'.op = "load_failed" /\ store' = store
     /\ (StoreCallFailed /\ lastOp'.op \in {"add_failed", "delete_failed"})
          => \E p \in pending \ pending' :
               /\ pending' = pending \ {p}
               /\ nextId' = nextId
               /\ store' = store
               /\ expenses' = expenses
               /\ alerts' = alerts
               /\ savedSummary' = savedSummary
               /\ ledger' = ledger]_vars

C22_Witness ==
  /\ lastOp.op = "add_failed"
  /\ user = NoUser
  /\ pending = {}
  /\ expenses # <<>>
  /\ SeqToSet(expenses) = store
  /\ alerts = recomputeAlerts(expenses, now)

\* C23: every transaction of the transaction list, and every expense a
\* handler has sent to the store, has an amount above zero, whether it was
\* loaded, added by hand (cut down by a cap or not) or imported.
C23_AmountsArePositive ==
  /\ \A i \in 1..Len(expenses) : expenses[i].amount > 0
  /\ \A p \in pending : \A i \in 1..Len(p.items) : p.items[i].amount > 0

\* snap without the transactions of the two ids
Without(snap, a, b) == SelectSeq(snap, LAMBDA e : e.id # a /\ e.id # b)

\* C24: when the delete of a MANUAL transaction b completes and the delete of
\* another MANUAL transaction a, listed when b's delete was clicked, has
\* completed in the meantime, neither a nor b is in the transaction list, and
\* the alerts and the summary are those of the list without them.
C24_ConcurrentDeletesBothApply ==
  [][\A p \in pending \ pending' :
       (p.kind = "delete" /\ lastOp'.op = "delete_done")
         => \A a \in SeqToSet(p.snap) :
              (a.source = "MANUAL" /\ a.id # p.items[1].id /\ a \notin store)
                => /\ a \notin SeqToSet(expenses')
                   /\ p.items[1] \notin SeqToSet(expenses')
                   /\ alerts' = recomputeAlerts(
                                  Without(p.snap, a.id, p.items[1].id), now)
                   /\ savedSummary' =
                        reconcileSavingsLedger(ledger[p.uk],
                          Without(p.snap, a.id, p.items[1].id), now).summary]_vars

\* a step in which a handler finished with the answer of its store call
CallCompleted == lastOp' # lastOp /\ lastOp'.op \in DoneOps \cup FailedOps

\* C25: when an add, a delete or an import has completed, with or without
\* success, every listed transaction is a document of the store under the id
\* it is listed with, every document the call has written is listed, and
\* every transaction listed before that is still in the store is still
\* listed.
C25_ListMirrorsStore ==
  [][CallCompleted
       => /\ SeqToSet(expenses') \subseteq store'
          /\ store' \ store \subseteq SeqToSet(expenses')
          /\ \A e \in SeqToSet(expenses) :
               e \in store' => e \in SeqToSet(expenses')]_vars

\* C26: the transaction list is ordered newest first, as the store's list
\* returns it, whatever loads, adds, deletes and imports have run; the six
\* entries shown as Recent Expenses are then the six most recent.
C26_ListIsNewestFirst ==
  /\ \A i, j \in 1..Len(expenses) :
       i < j => expenses[i].date >= expenses[j].date
  /\ \A i \in 1..Min(6, Len(expenses)) : \A j \in 1..Len(expenses) :
       j > 6 => expenses[i].date >= expenses[j].date

\* the impulse rule on a category and an amount
ImpulseRule(category, amount) ==
  category \in {"food", "shopping", "entertainment"} /\ amount > 500

\* C27: the isImpulse flag of every transaction, sent to the store, stored or
\* listed, is the impulse rule on its category and its committed amount (the
\* amount left after a cap has cut it down), and no step changes the flag of
\* a transaction that stays listed or stored.
C27_ImpulseFlagIsFixedAtCreation ==
  /\ [](/\ \A p \in pending : \A i \in 1..Len(p.items) :
             p.items[i].isImpulse
               = ImpulseRule(p.items[i].category, p.items[i].amount)
        /\ \A e \in SeqToSet(expenses) \cup store :
             e.isImpulse = ImpulseRule(e.category, e.amount))
  /\ [][/\ \A e \in SeqToSet(expenses) : \A f \in SeqToSet(expenses') :
             e.id = f.id => f.isImpulse = e.isImpulse /\ f.amount = e.amount
        /\ \A e \in store : \A f \in store' :
             e.id = f.id => f.isImpulse = e.isImpulse]_vars

C27_Witness ==
  /\ lastOp.op = "add_done"
  /\ lastOp.req > 500
  /\ lastOp.amt <= 500
  /\ Head(expenses).category = "food"
  /\ Head(expenses).amount = lastOp.amt
  /\ ~Head(expenses).isImpulse
  /\ Head(expenses) \in store

\* the bad alert of the category has been dismissed and no rebuild of the
\* alert list has brought a bad alert of the category back
DismissalStands(category) ==
  /\ dismissed.category = category
  /\ dismissed.severity = "bad"
  /\ ~\E a \in alerts : a.category = category /\ a.severity = "bad"
  /\ \E a \in recomputeAlerts(expenses, now) :
       a.category = category /\ a.severity = "bad"

\* C28: the cap is computed from the alert list as displayed: with the toggle
\* on, a manual add in a category whose bad alert has been dismissed and not
\* yet rebuilt gets no cap, is not blocked, and is sent to the store and
\* listed with the requested amount.
C28_DismissedAlertDoesNotCap ==
  [][/\ (AddStarted /\ lastOp'.apply /\ DismissalStands(lastOp'.cat))
          => /\ lastOp'.cap = NoCap
             /\ lastOp'.op = "add_issued"
             /\ \E p \in pending' \ pending :
                  /\ p.items[1].amount = lastOp'.req
                  /\ p.items[1].category = lastOp'.cat
     /\ (AddCompleted /\ lastOp'.apply /\ lastOp'.cap = NoCap
           /\ dismissed.category = lastOp'.cat)
          => /\ Head(expenses').amount = lastOp'.req
             /\ \E d \in store' \ store :
                  d.id = Head(expenses').id /\ d.amount = lastOp'.req]_vars

C28_Witness ==
  /\ lastOp.op = "add_done"
  /\ lastOp.apply
  /\ lastOp.cap = NoCap
  /\ dismissed.severity = "bad"
  /\ dismissed.category = lastOp.cat
  /\ Head(expenses).amount = lastOp.req
  /\ Head(expenses) \in store
  /\ \E a \in alerts : a.category = lastOp.cat /\ a.severity = "bad"

\* transaction lists of up to MaxList food and bills transactions of the
\* current and of the previous month
ProbeDocs ==
  {[amount |-> a, category |-> "food", date |-> d] : a \in {100, 600}, d \in {0, 1}}
    \cup {[amount |-> 100, category |-> "bills", date |-> 1]}
ProbeLists == UNION {[1..k -> ProbeDocs] : k \in 0..MaxList}

\* the cap of a category on a list whose alerts are those of the list
ProbeCap(list, category, asOf) ==
  computeCategoryCap(list,
    {a \in recomputeAlerts(list, asOf) : a.severity = "bad"}, category, asOf)

\* C29: some transaction list has a bad alert for a category and a cap above
\* the month-to-date spend of the category, so that a manual add with the
\* toggle on is committed with an amount above zero and below the request
\* (probed with the current month as asOf).
C29_PartialReductionIsReachable ==
  \E list \in ProbeLists : \E category \in {"food", "bills"} :
    /\ ProbeCap(list, category, now) # NoCap
    /\ ProbeCap(list, category, now) > MonthTotal(list, category, now)
    /\ \E in \in AddInputs :
         LET dec == CapDecision(TRUE, ProbeCap(list, category, now),
                                MonthTotal(list, category, now), in.amount)
         IN  ~dec.blocked /\ 0 < dec.finalAmount /\ dec.finalAmount < in.amount

\* a step in which handleAddExpense returned, or handleCSVUploadSuccess ran
HandlerReturned ==
  /\ lastOp' # lastOp
  /\ lastOp'.op \in {"add_blocked", "add_done", "add_failed", "import_done"}

\* C30: whenever the loading overlay is up it comes down again, and
\* handleAddExpense (blocked, added or failed) and handleCSVUploadSuccess
\* leave it down when they return, provided the store call returns or fails.
C30_LoadingFlagIsReleased ==
  /\ (isGlobalLoading ~> ~isGlobalLoading)
  /\ [][HandlerReturned => ~isGlobalLoading']_vars

C30_Witness ==
  /\ lastOp.op = "add_failed"
  /\ ~isGlobalLoading
  /\ pending = {}
  /\ user # NoUser
  /\ expenses # <<>>

====
